---- MODULE Spec2Model ----
(***************************************************************************)
(* Model of src/src/lib.rs: the startup task spawned by main_js (two       *)
(* callback-bridged image loads, the atlas fetch and decode, the frame     *)
(* lookup and the draws), together with the host events that drive it.     *)
(* The program is single threaded: host callbacks and promise resolutions  *)
(* run only while the task is suspended at an await, so every action below *)
(* is one run-to-suspension segment of the task or one host event.         *)
(***************************************************************************)
EXTENDS Integers, Sequences, FiniteSets, TLC

\* ------------------------------------------------------------------ bounds
\* number of distinct host error objects the error hook may carry
NumHostErrors == 2
\* largest x coordinate appearing in the atlas payloads that are enumerated
MaxCoord == 1
\* largest depth argument given to the outermost sierpinski call
MaxDepth == 5

\* ------------------------------------------------------- program constants
U16Max == 65535
SierpinskiDepth == 5
BlitDx == 300
BlitDy == 300

Loads == {1, 2}
HostErrors == 1..NumHostErrors
Unit == 0

IdleSrc == "Idle (1).png"
SheetSrc == "rhb.png"
LookupName == "Run (1).png"
FrameNames == {"Run (1).png", "Run (2).png"}

MsgFetch == "Could not fetch rhb.json"
MsgConvert == "Could not convert rhb.json into a Sheet structure"
MsgCell == "Cell not found"

\* ------------------------------------------------- atlas payloads (inputs)
\* JSON objects are functions from keys to values.  The enumerated payloads
\* contain well-formed entries, entries with an extra key, entries without
\* "frame", frames without "h", frames whose "h" does not fit in 16 bits,
\* and a payload without the top-level "frames" key.
FrameObjects ==
    { [x |-> a, y |-> 0, w |-> 50, h |-> b] : a \in 0..MaxCoord, b \in {37, U16Max + 1} }
        \cup { [x |-> 0, y |-> 0, w |-> 50] }

Entries ==
    { [frame |-> f] : f \in FrameObjects }
        \cup { [frame |-> f, rotated |-> FALSE] : f \in FrameObjects }
        \cup { [rotated |-> FALSE] }

FrameMaps == UNION { [N -> Entries] : N \in SUBSET FrameNames }

Payloads == { [frames |-> m] : m \in FrameMaps } \cup { [meta |-> 1] }

\* ------------------------------------------------------------ state
VARIABLES
    pc,           \* position of the spawned task
    cb,           \* cb[i].onload / cb[i].onerror: state of the two Closure objects of load i
    slot,         \* slot[i]: the Mutex<Option<Sender>> of load i ("Unset", "Some", "None")
    sent,         \* sent[i]: outcomes passed to Sender::send for load i, in order
    recv,         \* recv[i]: what success_rx.await returned for load i
    imgSrc,       \* imgSrc[i]: src of image element i ("" until set_src)
    fired,        \* fired[i]: host firings of the hooks of image i that ran a closure, in order
    canvas,       \* draw calls issued on the 2d context, in order
    fetchResult,  \* value of fetch_json("rhb.json").await
    decodeResult, \* value of json.into_serde()
    sprite,       \* value of sheet.frames.get("Run (1).png")
    panicMsg,     \* message of the panic that stopped the task ("" if none)
    firedLate,    \* firedLate[i]: a closure of load i ran after that load's await had returned
    fstack,       \* sierpinski: calls issued and not yet run, next call first
    fdraws,       \* sierpinski: number of draw_triangle calls issued
    flast,        \* sierpinski: arguments of the latest draw_triangle call
    frec,         \* sierpinski: number of recursive calls issued
    fdepth0,      \* sierpinski: depth argument of the outermost call
    fstatus       \* sierpinski: "idle", "running", "returned" or "panicked"

fvars == <<fstack, fdraws, flast, frec, fdepth0, fstatus>>

mvars == <<pc, cb, slot, sent, recv, imgSrc, fired, canvas, fetchResult,
           decodeResult, sprite, panicMsg, firedLate>>

vars == <<mvars, fvars>>

\* ------------------------------------------------------------ decoding
U16Ok(v) == v \in 0..U16Max

RectDecodes(r) ==
    \A k \in {"x", "y", "w", "h"} : k \in DOMAIN r /\ U16Ok(r[k])

RectOf(r) == [x |-> r.x, y |-> r.y, w |-> r.w, h |-> r.h]

CellDecodes(e) == "frame" \in DOMAIN e /\ RectDecodes(e.frame)

CellOf(e) == [frame |-> RectOf(e.frame)]

\* a decoder that drops the entries it cannot decode
DecodeDroppingBadEntries(v) ==
    IF "frames" \in DOMAIN v
    THEN <<"Ok", [frames |-> [n \in {m \in DOMAIN v.frames : CellDecodes(v.frames[m])}
                                 |-> CellOf(v.frames[n])]]>>
    ELSE <<"Err", 0>>

\* json.into_serde::<Sheet>()
Decode(v) ==
    IF "frames" \in DOMAIN v /\ \A n \in DOMAIN v.frames : CellDecodes(v.frames[n])
    THEN <<"Ok", [frames |-> [n \in DOMAIN v.frames |-> CellOf(v.frames[n])]]>>
    ELSE <<"Err", 0>>

\* sheet.frames.get(name)
FramesGet(sh, name) ==
    IF name \in DOMAIN sh.frames THEN <<"Some", sh.frames[name]>> ELSE <<"None", 0>>

\* ------------------------------------------------------------ draw calls
DrawImageOp(i) == [op |-> "drawImage", img |-> i, args |-> <<0, 0>>]

SierpinskiOp == [op |-> "sierpinski", img |-> 0, args |-> <<SierpinskiDepth>>]

\* a blit whose source width and height are exchanged
BlitOpSwapped(i, c) ==
    [op |-> "blit", img |-> i,
     args |-> <<c.frame.x, c.frame.y, c.frame.h, c.frame.w,
                BlitDx, BlitDy, c.frame.w, c.frame.h>>]

BlitOp(i, c) ==
    [op |-> "blit", img |-> i,
     args |-> <<c.frame.x, c.frame.y, c.frame.w, c.frame.h,
                BlitDx, BlitDy, c.frame.w, c.frame.h>>]

\* ------------------------------------------------------------ the bridge
\* opt.take() that leaves the sender in the slot
TakeKeepingSender(s) == <<s = "Some", s>>

\* a take that never finds the sender
TakeFindsNothing(s) == <<FALSE, s>>

\* lock().ok().and_then(|mut opt| opt.take()): <<a sender was taken, new slot>>
Take(s) == <<s = "Some", "None">>

SuccessOutcome == <<"Ok", Unit>>

\* an error callback that sends what the success callback sends
ErrorOutcomeAsSuccess(e) == <<"Ok", Unit>>

ErrorOutcome(e) == <<"Err", e>>

\* closures destroyed when the registering scope ends
ClosureDroppedAfterRegister == "dropped"

\* state of a Closure after set_onload / set_onerror: the locals stay alive
\* in the async block across the awaits
ClosureAfterRegister == "live"

\* a sender that is dropped as soon as it has been put in the slot
SenderDroppedWhileInSlot(i) == slot[i] = "Some"

\* the Sender is dropped unsent when every closure holding the Rc is gone
SenderDropped(i) ==
    /\ slot[i] = "Some"
    /\ cb[i].onload # "live"
    /\ cb[i].onerror # "live"

\* an await that does not wait
AwaitReadyAlways(i) == TRUE

\* success_rx.await can return: a value was sent or the sender was dropped
AwaitReady(i) == sent[i] # <<>> \/ SenderDropped(i)

AwaitResult(i) == IF sent[i] # <<>> THEN sent[i][1] ELSE <<"Canceled", 0>>

\* the fractal rendered before the idle pose is drawn
CanvasAfterIdleLoadFractalFirst(cv) == cv \o <<SierpinskiOp, DrawImageOp(1)>>

\* draw_image_with_html_image_element, then sierpinski
CanvasAfterIdleLoad(cv) == cv \o <<DrawImageOp(1), SierpinskiOp>>

\* both loads' closures capturing the slot of the second load
SlotOfSecondLoad(i) == 2

\* the slot (and the channel behind it) captured by the closures of load i:
\* each load creates its own channel and Rc
SlotOf(i) == i

\* a lookup miss that is skipped
PcAfterLookupSkipping(opt) == "done"

\* .expect("Cell not found") and the end of the async block
PcAfterLookup(opt) == IF opt[1] = "Some" THEN "done" ELSE "panicked"

DefaultCell == [frame |-> [x |-> 0, y |-> 0, w |-> 0, h |-> 0]]

\* a lookup miss that falls back to a default region
CanvasAfterLookupWithDefault(opt, cv) ==
    IF opt[1] = "Some" THEN Append(cv, BlitOp(2, opt[2]))
    ELSE Append(cv, BlitOp(2, DefaultCell))

\* the blit is issued only when the lookup found the cell
CanvasAfterLookup(opt, cv) ==
    IF opt[1] = "Some" THEN Append(cv, BlitOp(2, opt[2])) ELSE cv

\* ------------------------------------------------------------ Init
MainInit ==
    /\ pc = "spawned"
    /\ cb = [i \in Loads |-> [onload |-> "none", onerror |-> "none"]]
    /\ slot = [i \in Loads |-> "Unset"]
    /\ sent = [i \in Loads |-> <<>>]
    /\ recv = [i \in Loads |-> <<"Pending", 0>>]
    /\ imgSrc = [i \in Loads |-> ""]
    /\ fired = [i \in Loads |-> <<>>]
    /\ canvas = <<>>
    /\ fetchResult = <<"None", 0>>
    /\ decodeResult = <<"None", 0>>
    /\ sprite = <<"Unset", 0>>
    /\ panicMsg = ""
    /\ firedLate = [i \in Loads |-> FALSE]

\* no sierpinski call is being traced
FractalIdle ==
    /\ fstack = <<>>
    /\ fdraws = 0
    /\ flast = <<>>
    /\ frec = 0
    /\ fdepth0 = 0
    /\ fstatus = "idle"

Init == MainInit /\ FractalIdle

\* channel, slot, two closures, set_onload, set_onerror, set_src
LoadSetup(i, path) ==
    /\ slot' = [slot EXCEPT ![i] = "Some"]
    /\ cb' = [cb EXCEPT ![i] = [onload |-> ClosureAfterRegister,
                                onerror |-> ClosureAfterRegister]]
    /\ imgSrc' = [imgSrc EXCEPT ![i] = path]

\* ------------------------------------------------------------ task
\* first poll of the task: up to the first success_rx.await
StartLoad1 ==
    /\ pc = "spawned"
    /\ LoadSetup(1, IdleSrc)
    /\ pc' = "await1"
    /\ UNCHANGED <<sent, recv, fired, canvas, fetchResult, decodeResult, sprite, panicMsg>>
    /\ UNCHANGED <<firedLate, fvars>>

\* the await returns (its value is discarded), draw, fractal, fetch is issued
Resume1 ==
    /\ pc = "await1"
    /\ AwaitReady(1)
    /\ recv' = [recv EXCEPT ![1] = AwaitResult(1)]
    /\ canvas' = CanvasAfterIdleLoad(canvas)
    /\ pc' = "fetch_await"
    /\ UNCHANGED <<cb, slot, sent, imgSrc, fired, fetchResult, decodeResult, sprite, panicMsg>>
    /\ UNCHANGED <<firedLate, fvars>>

\* the fetch promise settles
FetchSettle(kind) ==
    /\ pc = "fetch_await"
    /\ IF kind = "Response"
       THEN /\ pc' = "json_await"
            /\ UNCHANGED <<fetchResult, panicMsg>>
       ELSE /\ fetchResult' = <<"Err", 0>>
            /\ pc' = "panicked"
            /\ panicMsg' = MsgFetch
    /\ UNCHANGED <<cb, slot, sent, recv, imgSrc, fired, canvas, decodeResult, sprite>>
    /\ UNCHANGED <<firedLate, fvars>>

\* the resp.json() promise rejects
JsonReject ==
    /\ pc = "json_await"
    /\ fetchResult' = <<"Err", 0>>
    /\ pc' = "panicked"
    /\ panicMsg' = MsgFetch
    /\ UNCHANGED <<cb, slot, sent, recv, imgSrc, fired, canvas, decodeResult, sprite>>
    /\ UNCHANGED <<firedLate, fvars>>

\* the resp.json() promise resolves: decode, then set up the second load
JsonResolve(v) ==
    /\ pc = "json_await"
    /\ fetchResult' = <<"Ok", v>>
    /\ decodeResult' = Decode(v)
    /\ IF Decode(v)[1] = "Ok"
       THEN /\ LoadSetup(2, SheetSrc)
            /\ pc' = "await2"
            /\ UNCHANGED panicMsg
       ELSE /\ pc' = "panicked"
            /\ panicMsg' = MsgConvert
            /\ UNCHANGED <<cb, slot, imgSrc>>
    /\ UNCHANGED <<sent, recv, fired, canvas, sprite>>
    /\ UNCHANGED <<firedLate, fvars>>

\* the second await returns, lookup, blit, end of the block drops the locals
Resume2 ==
    /\ pc = "await2"
    /\ AwaitReady(2)
    /\ recv' = [recv EXCEPT ![2] = AwaitResult(2)]
    /\ LET opt == FramesGet(decodeResult[2], LookupName) IN
        /\ sprite' = opt
        /\ canvas' = CanvasAfterLookup(opt, canvas)
        /\ pc' = PcAfterLookup(opt)
        /\ IF PcAfterLookup(opt) = "done"
           THEN /\ cb' = [i \in Loads |-> [onload |-> "dropped", onerror |-> "dropped"]]
                /\ UNCHANGED panicMsg
           ELSE /\ panicMsg' = MsgCell
                /\ UNCHANGED cb
    /\ UNCHANGED <<slot, sent, imgSrc, fired, fetchResult, decodeResult>>
    /\ UNCHANGED <<firedLate, fvars>>

\* ------------------------------------------------------------ host events
\* pc = "spawned" is the only position at which the task is not suspended or
\* over; no image has a src there, so the hooks cannot fire.
FireOnload(i) ==
    /\ imgSrc[i] # ""
    /\ cb[i].onload = "live"
    /\ LET k == SlotOf(i)
           t == Take(slot[k]) IN
        /\ slot' = [slot EXCEPT ![k] = t[2]]
        /\ sent' = [sent EXCEPT ![k] = IF t[1] THEN Append(@, SuccessOutcome) ELSE @]
    /\ firedLate' = [firedLate EXCEPT ![i] = @ \/ recv[i][1] # "Pending"]
    /\ cb' = [cb EXCEPT ![i].onload = "consumed"]
    /\ fired' = [fired EXCEPT ![i] = Append(@, <<"onload", Unit>>)]
    /\ UNCHANGED <<pc, recv, imgSrc, canvas, fetchResult, decodeResult, sprite, panicMsg>>
    /\ UNCHANGED fvars

FireOnerror(i, e) ==
    /\ imgSrc[i] # ""
    /\ cb[i].onerror = "live"
    /\ LET k == SlotOf(i)
           t == Take(slot[k]) IN
        /\ slot' = [slot EXCEPT ![k] = t[2]]
        /\ sent' = [sent EXCEPT ![k] = IF t[1] THEN Append(@, ErrorOutcome(e)) ELSE @]
    /\ firedLate' = [firedLate EXCEPT ![i] = @ \/ recv[i][1] # "Pending"]
    /\ cb' = [cb EXCEPT ![i].onerror = "consumed"]
    /\ fired' = [fired EXCEPT ![i] = Append(@, <<"onerror", e>>)]
    /\ UNCHANGED <<pc, recv, imgSrc, canvas, fetchResult, decodeResult, sprite, panicMsg>>
    /\ UNCHANGED fvars

\* ------------------------------------------------------------ sierpinski
\* Coordinates are f64 in the source; they are kept here as integers in
\* units of 1/PointScale pixel, which makes the halvings of the midpoints
\* exact for the depths that are explored.
PointScale == 64
ByteMod == 256
GenLow == 0
GenHigh == 255

InitialPoints ==
    << <<300 * PointScale, 0>>, <<0, 600 * PointScale>>, <<600 * PointScale, 600 * PointScale>> >>

InitialColor == <<0, 255, 0>>

\* colours tried for next_color; the last one has a channel equal to 255
ColorInputs == {<<0, 0, 0>>, <<254, 1, 127>>, <<0, 255, 0>>}

\* what `depth - 1` does on a u8 that is 0: overflow checks on (panic) or
\* off (wrap around)
OverflowOutcomes == {"panic", "wrap"}

\* rng.gen_range(0..255): the range excludes its upper end
InGenRange(v) == GenLow <= v /\ v < GenHigh

midpoint(p1, p2) == <<(p1[1] + p2[1]) \div 2, (p1[2] + p2[2]) \div 2>>

\* let depth = depth - 1, in 8 bits
DecDepth(d) == (d - 1) % ByteMod

\* a recursion test made one level too early
RecursesAboveOne(d) == d > 1

\* if depth > 0, on the decremented depth
Recurses(d) == d > 0

\* the first recursive call given the caller's colour
ChildColorFirstKeepsCurrent(k, next, cur) == IF k = 1 THEN cur ELSE next

\* the colour argument of the k-th recursive call
ChildColor(k, next, cur) == next

\* the three recursive calls, in call order: top, left, right
Children(f, d, c) ==
    LET top == f.points[1]
        left == f.points[2]
        right == f.points[3]
        left_middle == midpoint(top, left)
        right_middle == midpoint(top, right)
        bottom_middle == midpoint(left, right)
    IN << [points |-> <<top, left_middle, right_middle>>,
           color |-> ChildColor(1, c, f.color), depth |-> d],
          [points |-> <<left_middle, left, bottom_middle>>,
           color |-> ChildColor(2, c, f.color), depth |-> d],
          [points |-> <<right_middle, bottom_middle, right>>,
           color |-> ChildColor(3, c, f.color), depth |-> d] >>

\* the longest list of pending calls a run from depth MaxDepth builds
StackCap == 2 * MaxDepth + 1

\* the outermost call sierpinski(context, points, (0, 255, 0), depth)
FractalInit ==
    /\ MainInit
    /\ fdepth0 \in 0..MaxDepth
    /\ fstack = <<[points |-> InitialPoints, color |-> InitialColor, depth |-> fdepth0]>>
    /\ fdraws = 0
    /\ flast = <<>>
    /\ frec = 0
    /\ fstatus = "running"

\* one execution of the body of sierpinski: draw_triangle, the decrement,
\* and, if it recurses, the colour sample and the three calls (which run
\* next, in order, before anything the caller still has pending)
SierpinskiCall(ov, c) ==
    /\ fstatus = "running"
    /\ fstack # <<>>
    /\ Len(fstack) <= StackCap
    /\ LET f == Head(fstack)
           d == DecDepth(f.depth)
       IN /\ fdraws' = fdraws + 1
          /\ flast' = <<f.points, f.color>>
          /\ IF f.depth = 0 /\ ov = "panic"
             THEN /\ fstatus' = "panicked"
                  /\ UNCHANGED <<fstack, frec>>
             ELSE IF Recurses(d)
             THEN /\ \A k \in 1..3 : InGenRange(c[k])
                  /\ fstack' = Children(f, d, c) \o Tail(fstack)
                  /\ frec' = frec + 3
                  /\ fstatus' = "running"
             ELSE /\ fstack' = Tail(fstack)
                  /\ frec' = frec
                  /\ fstatus' = IF Tail(fstack) = <<>> THEN "returned" ELSE "running"
    /\ UNCHANGED <<fdepth0, mvars>>

FractalNext ==
    \E ov \in OverflowOutcomes, c \in ColorInputs :
        SierpinskiCall(ov, c)

SpecFractal == FractalInit /\ [][FractalNext]_vars

Next ==
    \/ StartLoad1
    \/ Resume1
    \/ \E kind \in {"Response", "NotResponse", "Rejected"} : FetchSettle(kind)
    \/ JsonReject
    \/ \E v \in Payloads : JsonResolve(v)
    \/ Resume2
    \/ \E i \in Loads : FireOnload(i)
    \/ \E i \in Loads, e \in HostErrors : FireOnerror(i, e)

Spec == Init /\ [][Next]_vars

\* the executor polls the task again whenever it has been woken; nothing is
\* assumed of the host
FairSpec ==
    Spec /\ WF_vars(StartLoad1) /\ WF_vars(Resume1) /\ WF_vars(Resume2)

\* ============================================================ claims
OutcomeOfFiring(f) == IF f[1] = "onload" THEN <<"Ok", Unit>> ELSE <<"Err", f[2]>>

NoBlit == \A k \in 1..Len(canvas) : canvas[k].op # "blit"

\* C1: for each image load, whatever the order in which the host fires the
\* success and the error callback, exactly one outcome is sent and it is the
\* outcome of the callback that fired first; the callback that fires second
\* finds the slot empty and sends nothing, and the awaiter observes that one
\* outcome.
C1_FirstCallbackWins ==
    \A i \in Loads :
        /\ sent[i] = IF fired[i] = <<>> THEN <<>> ELSE <<OutcomeOfFiring(fired[i][1])>>
        /\ fired[i] # <<>> => slot[i] = "None"
        /\ recv[i][1] # "Pending" => recv[i] = OutcomeOfFiring(fired[i][1])

\* both callbacks of load 1 fired, the error callback first
C1_Witness ==
    /\ Len(fired[1]) = 2
    /\ fired[1][1][1] = "onerror"
    /\ fired[1][2][1] = "onload"
    /\ Len(sent[1]) = 1

\* C2: when the error callback of a load fires first with host error object
\* e, the outcome delivered on that load's channel is the failure carrying e
\* and no success outcome is ever delivered for that load.
C2_ErrorFirstDeliversFailure ==
    \A i \in Loads :
        (fired[i] # <<>> /\ fired[i][1][1] = "onerror") =>
            /\ sent[i] = << <<"Err", fired[i][1][2]>> >>
            /\ \A k \in 1..Len(sent[i]) : sent[i][k][1] # "Ok"
            /\ recv[i][1] # "Pending" => recv[i] = <<"Err", fired[i][1][2]>>

\* the error hook of load 2 fired first with error object 2, the success hook
\* fired afterwards and the await has returned the failure
C2_Witness ==
    /\ Len(fired[2]) = 2
    /\ fired[2][1] = <<"onerror", 2>>
    /\ fired[2][2][1] = "onload"
    /\ recv[2] = <<"Err", 2>>

\* C3: a failed image load aborts the startup sequence: after a failure
\* outcome of the idle-image load nothing is drawn, the fetch is not issued
\* and the sprite-sheet load is not started; after a failure outcome of the
\* sprite-sheet load no sprite is blitted.
C3_FailedLoadAborts ==
    /\ recv[1][1] = "Err" =>
          /\ canvas = <<>>
          /\ pc \notin {"fetch_await", "json_await", "await2", "done"}
          /\ fetchResult[1] = "None"
          /\ imgSrc[2] = ""
    /\ recv[2][1] = "Err" => (NoBlit /\ pc # "done")

\* C4: each draw of an image happens only after a callback of that image's
\* load has taken the slot and sent, and only when the load succeeded.
C4_DrawOnlyAfterSuccessfulLoad ==
    \A k \in 1..Len(canvas) :
        canvas[k].op \in {"drawImage", "blit"} =>
            /\ sent[canvas[k].img] # <<>>
            /\ slot[canvas[k].img] = "None"
            /\ recv[canvas[k].img] = <<"Ok", Unit>>

ImageInFlight(i) == imgSrc[i] # "" /\ sent[i] = <<>>

FetchInFlight == pc \in {"fetch_await", "json_await"}

FetchStarted == FetchInFlight \/ fetchResult[1] # "None"

InFlight(l) ==
    CASE l = "idle" -> ImageInFlight(1)
      [] l = "atlas" -> FetchInFlight
      [] l = "sheet" -> ImageInFlight(2)

\* C5: the three loads never overlap: the atlas fetch is started only after
\* the idle-image load has completed, the sprite-sheet load only after the
\* fetch and the decode have completed, and at most one load is in flight.
C5_LoadsNeverOverlap ==
    /\ Cardinality({l \in {"idle", "atlas", "sheet"} : InFlight(l)}) <= 1
    /\ FetchStarted => sent[1] # <<>>
    /\ imgSrc[2] # "" =>
          (fetchResult[1] = "Ok" /\ decodeResult[1] = "Ok" /\ ~FetchInFlight /\ sent[1] # <<>>)

\* the sprite-sheet load is in flight, the two earlier loads are complete
C5_Witness ==
    /\ ImageInFlight(2)
    /\ sent[1] # <<>>
    /\ decodeResult[1] = "Ok"

AtAwait(i) == pc = (IF i = 1 THEN "await1" ELSE "await2")

\* C6: while neither callback of the pending load has fired, the task stays
\* suspended at that load's await: no step draws, issues the fetch or starts
\* a later load.
C6_StalledWhileNoCallback ==
    [][\A i \in Loads :
          (AtAwait(i) /\ fired'[i] = <<>>) =>
              /\ pc' = pc
              /\ canvas' = canvas
              /\ fetchResult' = fetchResult
              /\ imgSrc' = imgSrc
              /\ recv' = recv]_vars

\* suspended at the second await with no callback of load 2 fired, while the
\* host has gone on firing both hooks of load 1
C6_Witness ==
    /\ pc = "await2"
    /\ fired[2] = <<>>
    /\ Len(fired[1]) = 2
    /\ NoBlit

LoadPending(i) == imgSrc[i] # "" /\ recv[i][1] = "Pending"

\* C7: while a load is pending (its src is set and its await has not
\* returned) neither of its two Closure objects has been dropped.
C7_ClosuresOutlivePendingLoad ==
    \A i \in Loads :
        LoadPending(i) =>
            /\ cb[i].onload \in {"live", "consumed"}
            /\ cb[i].onerror \in {"live", "consumed"}

\* load 2 is pending with both closures registered and not yet invoked
C7_Witness ==
    /\ LoadPending(2)
    /\ cb[2].onload = "live"
    /\ cb[2].onerror = "live"
    /\ sent[2] = <<>>

\* the wire shape Sheet / Cell / Rect accept: extra keys are ignored
WellShaped(v) ==
    /\ "frames" \in DOMAIN v
    /\ \A n \in DOMAIN v.frames :
          /\ "frame" \in DOMAIN v.frames[n]
          /\ \A k \in {"x", "y", "w", "h"} :
                /\ k \in DOMAIN v.frames[n].frame
                /\ v.frames[n].frame[k] >= 0
                /\ v.frames[n].frame[k] < 65536

\* C8: a fetched payload that does not have the expected shape (for example
\* an entry without "frame") makes the decode return an error value, and that
\* is fatal: the sprite-sheet load is never started and no sprite is blitted.
C8_DecodeErrorIsFatal ==
    (fetchResult[1] = "Ok" /\ ~WellShaped(fetchResult[2])) =>
        /\ decodeResult[1] = "Err"
        /\ pc = "panicked"
        /\ panicMsg = MsgConvert
        /\ imgSrc[2] = ""
        /\ cb[2].onload = "none"
        /\ NoBlit

\* the payload has one good entry and one entry without "frame"
C8_Witness ==
    /\ fetchResult[1] = "Ok"
    /\ "frames" \in DOMAIN fetchResult[2]
    /\ DOMAIN fetchResult[2].frames = FrameNames
    /\ "frame" \in DOMAIN fetchResult[2].frames["Run (1).png"]
    /\ "frame" \notin DOMAIN fetchResult[2].frames["Run (2).png"]
    /\ decodeResult[1] = "Err"
    /\ pc = "panicked"

Failed == fetchResult[1] = "Err" \/ decodeResult[1] = "Err" \/ sprite[1] = "None"

\* C9: on a fetch failure, a decode failure or a frame lookup miss the
\* drawing surface stays exactly as it was: the step in which the failure
\* occurs and every later step issue no draw call.
C9_SurfaceUntouchedAfterFailure ==
    [][Failed' => canvas' = canvas]_vars

\* the lookup missed after the idle pose and the fractal had been drawn, and
\* the host has fired a further callback after the failure
C9_Witness ==
    /\ sprite[1] = "None"
    /\ canvas = <<DrawImageOp(1), SierpinskiOp>>
    /\ Len(fired[2]) = 2

\* C10: when the looked-up frame name is absent from the atlas, the sequence
\* fails at the lookup and no blit is issued.
C10_LookupMissIsFatal ==
    (recv[2][1] # "Pending" /\ LookupName \notin DOMAIN decodeResult[2].frames) =>
        /\ sprite[1] = "None"
        /\ pc = "panicked"
        /\ panicMsg = MsgCell
        /\ NoBlit

\* the atlas holds another frame but not the looked-up one
C10_Witness ==
    /\ recv[2][1] # "Pending"
    /\ DOMAIN decodeResult[2].frames = {"Run (2).png"}
    /\ pc = "panicked"

\* ------------------------------------------------------------ sierpinski claims
RECURSIVE Pow3Sum(_)
\* 1 + 3 + ... + 3^(d-1)
Pow3Sum(d) == IF d = 0 THEN 0 ELSE 3 ^ (d - 1) + Pow3Sum(d - 1)

\* C12: for every depth >= 1, one call of sierpinski with that depth has
\* issued, when it returns, exactly 1 + 3 + ... + 3^(depth-1) draw_triangle
\* calls.
C12_TriangleCount ==
    (fstatus = "returned" /\ fdepth0 >= 1) => fdraws = Pow3Sum(fdepth0)

\* a call with depth 3 has returned after 13 triangles
C12_Witness ==
    /\ fstatus = "returned"
    /\ fdepth0 = 3
    /\ fdraws = 13
    /\ frec = 12

\* C13: a call of sierpinski with depth 0 draws only the current triangle,
\* makes no recursive call and returns.
C13_DepthZeroReturns ==
    (fdepth0 = 0 /\ fdraws >= 1) =>
        /\ fstatus = "returned"
        /\ fdraws = 1
        /\ frec = 0

\* C16: at every execution of sierpinski that recurses, the three recursive
\* calls (top, left and right corner) all receive one and the same colour
\* and one and the same depth, the caller's depth minus one, and they run
\* before the calls the callers still have pending.
C16_ChildrenShareColourAndDepth ==
    [][frec' # frec =>
          LET f == Head(fstack)
              kids == SubSeq(fstack', 1, 3)
          IN /\ frec' = frec + 3
             /\ Len(fstack') = Len(fstack) + 2
             /\ SubSeq(fstack', 4, Len(fstack')) = Tail(fstack)
             /\ \A k \in 1..3 :
                   /\ kids[k].color = kids[1].color
                   /\ kids[k].depth = kids[1].depth
                   /\ f.depth >= 1 => kids[k].depth = f.depth - 1
             /\ kids[1].points[1] = f.points[1]
             /\ kids[2].points[2] = f.points[2]
             /\ kids[3].points[3] = f.points[3]]_vars

\* two levels of the recursion have run; the three calls pending from the
\* second level hold the colour sampled there
C16_Witness ==
    /\ frec = 6
    /\ Len(fstack) >= 5
    /\ fstack[1].color = <<254, 1, 127>>
    /\ fstack[2].color = <<254, 1, 127>>
    /\ fstack[3].color = <<254, 1, 127>>
    /\ fstack[4].color = <<0, 0, 0>>
    /\ fstack[1].depth = fdepth0 - 2

\* C17: when an execution of sierpinski is about to recurse, every value
\* from 0 to 255 inclusive is a possible value of each of the three channels
\* of the colour it samples.
C17_FullByteRange ==
    (fstatus = "running" /\ fdepth0 >= 1 /\ fstack # <<>> /\ Head(fstack).depth >= 2) =>
        \A ch \in 1..3 : \A v \in 0..255 :
            ENABLED SierpinskiCall("wrap", [k \in 1..3 |-> IF k = ch THEN v ELSE 0])

\* ------------------------------------------------------------ more claims
NumBlits == Cardinality({k \in 1..Len(canvas) : canvas[k].op = "blit"})

\* C11: after the sprite-sheet image has loaded and the frame was found, the
\* animation keeps ticking: a further blit is always still to come.
C11_AnimationLoopTicks ==
    (recv[2][1] # "Pending" /\ sprite[1] = "Some") => ENABLED (Next /\ canvas' # canvas)

\* C14: the idle-pose image is drawn exactly once and the fractal renderer
\* is invoked exactly once, in that order, after a callback of the idle-image
\* load has sent and not later than the step that issues the atlas fetch.
C14_IdleDrawThenFractalOnce ==
    /\ pc \in {"spawned", "await1"} => (canvas = <<>> /\ ~FetchStarted)
    /\ (FetchStarted \/ pc \notin {"spawned", "await1"}) =>
          /\ sent[1] # <<>>
          /\ recv[1][1] # "Pending"
          /\ Len(canvas) >= 2
          /\ canvas[1] = DrawImageOp(1)
          /\ canvas[2] = SierpinskiOp
          /\ \A k \in 3..Len(canvas) : canvas[k].op \notin {"drawImage", "sierpinski"}

\* a run in which no step failed has finished
C14_Witness ==
    /\ pc = "done"
    /\ recv[1] = <<"Ok", Unit>>
    /\ recv[2] = <<"Ok", Unit>>
    /\ Len(canvas) = 3
    /\ canvas[2].op = "sierpinski"

RawRect(n) == fetchResult[2].frames[n].frame

LookupAgrees(n) ==
    LET r == FramesGet(decodeResult[2], n) IN
    IF n \in DOMAIN fetchResult[2].frames
    THEN /\ r[1] = "Some"
         /\ r[2].frame.x = RawRect(n).x
         /\ r[2].frame.y = RawRect(n).y
         /\ r[2].frame.w = RawRect(n).w
         /\ r[2].frame.h = RawRect(n).h
    ELSE r[1] = "None"

\* C15: the lookup in the decoded atlas returns, for every name present in
\* the fetched atlas, exactly the rectangle stored for it, and nothing for a
\* name that is absent; the decoded atlas never changes; and the source
\* region of the sprite blit is the atlas rectangle of the looked-up name.
C15_LookupExactAndAtlasFrozen ==
    /\ [](decodeResult[1] = "Ok" =>
            /\ \A n \in FrameNames \cup {IdleSrc} : LookupAgrees(n)
            /\ \A k \in 1..Len(canvas) :
                  canvas[k].op = "blit" =>
                      /\ canvas[k].img = 2
                      /\ LookupName \in DOMAIN fetchResult[2].frames
                      /\ canvas[k].args =
                            <<RawRect(LookupName).x, RawRect(LookupName).y,
                              RawRect(LookupName).w, RawRect(LookupName).h,
                              300, 300, RawRect(LookupName).w, RawRect(LookupName).h>>)
    /\ [][decodeResult[1] = "Ok" => decodeResult' = decodeResult]_vars

\* the atlas holds two different rectangles and the sprite has been blitted
C15_Witness ==
    /\ pc = "done"
    /\ fetchResult[1] = "Ok"
    /\ "frames" \in DOMAIN fetchResult[2]
    /\ DOMAIN fetchResult[2].frames = FrameNames
    /\ "rotated" \in DOMAIN fetchResult[2].frames["Run (1).png"]
    /\ decodeResult[2].frames["Run (1).png"].frame.x = 1
    /\ decodeResult[2].frames["Run (2).png"].frame.x = 0
    /\ NumBlits = 1

\* C18: a step in which a callback of one load runs changes neither the
\* slot, the channel nor the closures of the other load, and it does not
\* resume the task.
C18_LoadsIsolated ==
    [][\A i \in Loads :
          fired'[i] # fired[i] =>
              /\ \A j \in Loads \ {i} :
                    /\ slot'[j] = slot[j]
                    /\ sent'[j] = sent[j]
                    /\ cb'[j] = cb[j]
                    /\ fired'[j] = fired[j]
              /\ recv' = recv
              /\ pc' = pc]_vars

\* the error hook of the idle image fired after the first await had
\* returned, while the sprite-sheet load was set up; that load is still waiting
C18_Witness ==
    /\ pc = "await2"
    /\ firedLate[1]
    /\ Len(fired[1]) = 2
    /\ fired[1][2][1] = "onerror"
    /\ sent[2] = <<>>
    /\ slot[2] = "Some"
    /\ recv[2][1] = "Pending"

OnloadFired(i) == \E k \in 1..Len(fired[i]) : fired[i][k][1] = "onload"

\* C19: the task starts; once the success callback of the idle-image load
\* has fired the task gets past the first await; and once the success
\* callback of the sprite-sheet load has fired (so fetch and decode
\* succeeded) with the looked-up frame present, the task performs the blit
\* and finishes.
C19_EventuallyBlitsAndFinishes ==
    /\ (pc = "spawned") ~> (pc = "await1")
    /\ OnloadFired(1) ~> (pc \notin {"spawned", "await1"})
    /\ (OnloadFired(2) /\ LookupName \in DOMAIN decodeResult[2].frames)
          ~> (pc = "done" /\ NumBlits = 1)

\* the success callbacks alone fired and the task has finished with the blit
C19_Witness ==
    /\ pc = "done"
    /\ fired[1] = << <<"onload", Unit>> >>
    /\ fired[2] = << <<"onload", Unit>> >>
    /\ NumBlits = 1
    /\ sprite[1] = "Some"

====
